---- MODULE Spec2Model ----
(***************************************************************************)
(* Model of chain_watcher.py: fetch_upgrade_plan, fetch_block_height and   *)
(* the ChainWatcher.monitor loop with its sqlite ledger (table `chains`),  *)
(* its Slack alerts and its Prometheus metrics.                            *)
(*                                                                         *)
(* Python values are modelled as follows.                                  *)
(*   None / empty dict / no row      the empty tuple << >>                  *)
(*   a JSON object                   a record (a function on its keys)      *)
(*   a string of decimal digits      a tuple of digits, "10" is <<1, 0>>    *)
(*   a row of `chains`               <<chain_id, upgrade_height,            *)
(*                                     is_reminder_sent>>; Python's row[1]  *)
(*                                     and row[2] are row[2] and row[3]     *)
(*   False / True written by SQL     0 / 1                                  *)
(***************************************************************************)
EXTENDS Integers, Sequences, FiniteSets, TLC

\* ------------------------------------------------------------------ bounds
MaxHeight == 10          \* largest plan height the node reports
MaxTime == 2             \* the clock stops advancing here
MaxErrors == 1           \* database write failures per process
MaxRestarts == 1         \* restarts of a watcher process
ReminderDiffBlocks == 1  \* config["chains"][chain_id]["reminder_diff_blocks"]

ChainIds == {"cosmoshub-4", "osmosis-1"}
PlanHeights == (MaxHeight - 2)..MaxHeight
BlockHeights == (MaxHeight - 4)..(MaxHeight + 1)

ErrorKinds == {"plan_not_in_request", "upgrade_request_failed",
               "block_not_in_request", "block_request_failed",
               "database_update_failed"}

\* --------------------------------------------------------- pure functions
\* The node encodes heights as strings of decimal digits.
RECURSIVE str_(_)
str_(n) == IF n < 10 THEN <<n>> ELSE Append(str_(n \div 10), n % 10)

\* int(s) for a string of decimal digits.
RECURSIVE int_(_)
int_(s) == IF s = <<>> THEN 0
           ELSE int_(SubSeq(s, 1, Len(s) - 1)) * 10 + s[Len(s)]

\* Responses of GET {endpoint}/cosmos/upgrade/v1beta1/current_plan.
PlanResponses ==
    {[status_code |-> 500, json |-> <<>>],
     [status_code |-> 200, json |-> <<>>],
     [status_code |-> 200, json |-> [plan |-> <<>>]]}
    \cup {[status_code |-> 200,
           json |-> [plan |-> [name |-> "v2", height |-> str_(h)]]] :
          h \in PlanHeights}

\* Responses of GET {rpc}/status.
BlockResponses ==
    {[status_code |-> 500, json |-> <<>>],
     [status_code |-> 200, json |-> <<>>],
     [status_code |-> 200, json |-> [result |-> <<>>]],
     [status_code |-> 200, json |-> [result |-> [sync_info |-> <<>>]]]}
    \cup {[status_code |-> 200,
           json |-> [result |->
                       [sync_info |-> [latest_block_height |-> str_(b)]]]] :
          b \in BlockHeights}

\* fetch_upgrade_plan: the exception raised ("" for none) and the value.
fetch_upgrade_plan(req) ==
    IF req.status_code # 200
    THEN [raised |-> "UpgradeRequestFailed", value |-> <<>>]
    ELSE IF "plan" \notin DOMAIN req.json
    THEN [raised |-> "PlanNotInRequest", value |-> <<>>]
    ELSE [raised |-> "", value |-> req.json.plan]

\* fetch_block_height: only the key "result" is tested; a missing nested key
\* is a KeyError of the subscript expression.
fetch_block_height(req) ==
    IF req.status_code # 200
    THEN [raised |-> "BlockRequestFailed", value |-> 0]
    ELSE IF "result" \notin DOMAIN req.json
    THEN [raised |-> "BlockNotInRequest", value |-> 0]
    ELSE IF "sync_info" \notin DOMAIN req.json.result
    THEN [raised |-> "KeyError", value |-> 0]
    ELSE IF "latest_block_height" \notin DOMAIN req.json.result.sync_info
    THEN [raised |-> "KeyError", value |-> 0]
    ELSE [raised |-> "",
          value |-> int_(req.json.result.sync_info.latest_block_height)]

\* ------------------------------------------------------------- the ledger
\* The table is keyed by chain_id: a row with the same chain_id is replaced.
InsertOrReplace(table, row) ==
    {r \in table : r[1] # row[1]} \cup {row}

\* Variant: the SELECT matches no row (a wrong chain_id in the WHERE clause).
get_db_upgrade_no_match(table, c) == <<>>

\* SELECT * FROM chains WHERE chain_id=...; fetchone()
get_db_upgrade(table, c) ==
    LET rows == {r \in table : r[1] = c}
    IN  IF rows = {} THEN <<>> ELSE CHOOSE r \in rows : TRUE

\* Variant: the new row is written with is_reminder_sent = True.
update_db_upgrade_flag_set(table, c, p) ==
    InsertOrReplace(table, <<c, int_(p.height), 1>>)

\* Variant: the height is replaced and the old row's flag is kept.
update_db_upgrade_keep_flag(table, c, p) ==
    LET rows == {r \in table : r[1] = c}
    IN  InsertOrReplace(table,
            <<c, int_(p.height),
              IF rows = {} THEN 0 ELSE (CHOOSE r \in rows : TRUE)[3]>>)

\* INSERT OR REPLACE ... VALUES(chain_id, int(plan['height']), False)
update_db_upgrade(table, c, p) ==
    InsertOrReplace(table, <<c, int_(p.height), 0>>)

\* Variant: the UPDATE without its WHERE clause.
update_db_reminder_all_rows(table, c) ==
    {<<r[1], r[2], 1>> : r \in table}

\* UPDATE chains SET is_reminder_sent=True WHERE chain_id=...
update_db_reminder(table, c) ==
    {IF r[1] = c THEN <<r[1], r[2], 1>> ELSE r : r \in table}

\* ------------------------------------------------------------- the alerts
notify_slack(c, p) ==
    [kind |-> "notice", chain_id |-> c, name |-> p.name, height |-> p.height]

remind_slack(c, p, block) ==
    [kind |-> "reminder", chain_id |-> c, name |-> p.name,
     height |-> p.height, current_height |-> block,
     remaining |-> int_(p.height) - block]

\* ---------------------------------------------------------- the decisions
\* Variant: an empty plan is not skipped.
after_plan_no_skip(p) == "get_db"

\* if not plan: continue
after_plan(p) == IF p = <<>> THEN "loop" ELSE "get_db"

\* Variant: > in place of >=.
is_known_upgrade_strict(existing, p) ==
    existing # <<>> /\ existing[2] > int_(p.height)

\* Variant: == in place of >=.
is_known_upgrade_equal(existing, p) ==
    existing # <<>> /\ existing[2] = int_(p.height)

\* Variant: <= in place of >=.
is_known_upgrade_reversed(existing, p) ==
    existing # <<>> /\ existing[2] <= int_(p.height)

\* existing_upgrade and existing_upgrade[1] >= int(plan["height"])
is_known_upgrade(existing, p) ==
    existing # <<>> /\ existing[2] >= int_(p.height)

\* Variant: < in place of <=.
reminder_due_strict(existing, block) ==
    existing[3] = 0 /\ existing[2] - block < ReminderDiffBlocks

\* Variant: is_reminder_sent is not tested.
reminder_due_any_flag(existing, block) ==
    existing[2] - block <= ReminderDiffBlocks

\* not existing_upgrade[2] and
\* existing_upgrade[1] - current_block <= reminder_diff_blocks
reminder_due(existing, block) ==
    existing[3] = 0 /\ existing[2] - block <= ReminderDiffBlocks

\* ------------------------------------------------------------------ state
VARIABLES
    chains,             \* the table `chains` of the sqlite database
    watchers,           \* the chain ids a ChainWatcher was constructed for
    alive,              \* alive[c]: the process of watcher c is running
    pc,                 \* pc[c]: where watcher c is in monitor()
    plan,               \* monitor's local `plan`
    existing_upgrade,   \* monitor's local `existing_upgrade`
    current_block,      \* monitor's local `current_block`
    last_checked_time,  \* the gauge, per chain_id label (0: never set)
    error_counter,      \* the counter, per chain_id and error label
    now,                \* time.time()
    restarts,           \* restarts[c]: how often watcher c was restarted
    tick,               \* tick[c]: what the current iteration has done
    run,                \* run[c]: alerts since the node began to report
                        \*         its current plan height
    noticed,            \* plan heights a notice was dispatched for
    reminded,           \* recorded heights a reminder was dispatched for
    marked,             \* recorded heights update_db_reminder committed for
    upsertFailed        \* an update_db_upgrade of watcher c has failed

vars == <<chains, watchers, alive, pc, plan, existing_upgrade, current_block,
          last_checked_time, error_counter, now, restarts, tick, run,
          noticed, reminded, marked, upsertFailed>>

NoErrors == [k \in ErrorKinds |-> 0]

\* The record of one iteration of the loop, opened when the iteration starts.
\*   fetch   outcome of fetch_upgrade_plan  db0    ledger record at the start
\*   gauge0  the gauge at the start         sent   alerts dispatched
\*   alert   outcome of the last send       block  outcome of the block fetch
\*   writes  ledger writes and their outcome
\*   owed    the write that failed in the iteration before, when this
\*           iteration observes the same plan height ("" otherwise)
NewTick(c) ==
    [fetch |-> "none", db0 |-> get_db_upgrade(chains, c),
     gauge0 |-> last_checked_time[c], sent |-> <<>>, alert |-> "none",
     block |-> "none", writes |-> <<>>, owed |-> ""]

NoTick == [fetch |-> "none", db0 |-> <<>>, gauge0 |-> 0, sent |-> <<>>,
           alert |-> "none", block |-> "none", writes |-> <<>>, owed |-> ""]

NewRun(h) == [height |-> h, noticed |-> FALSE, reminded |-> FALSE,
              upserted |-> FALSE, marked |-> FALSE]

\* The plan height of a fetched plan, 0 for no plan.
PlanHeight(p) == IF p = <<>> THEN 0 ELSE int_(p.height)

\* The write of the iteration that just ended, if it failed and the plan p
\* fetched now has the height of the plan of that iteration.
Owed(c, p) ==
    LET w == tick[c].writes
    IN  IF /\ tick[c].fetch = "ok" /\ w # <<>>
           /\ w[Len(w)][2] = "failed"
           /\ p # <<>> /\ PlanHeight(p) = PlanHeight(plan[c])
        THEN w[Len(w)][1] ELSE ""

\* The label each except clause of monitor() counts its exception under.
error_label(exc) ==
    CASE exc = "PlanNotInRequest" -> "plan_not_in_request"
      [] exc = "UpgradeRequestFailed" -> "upgrade_request_failed"
      [] exc = "BlockNotInRequest" -> "block_not_in_request"
      [] exc = "BlockRequestFailed" -> "block_request_failed"
      [] exc = "OperationalError" -> "database_update_failed"

\* error_counter.labels(chain_id=c, error=label).inc()
inc(counter, c, label) ==
    [counter EXCEPT ![c][label] = counter[c][label] + 1]

TypeOK ==
    /\ watchers \subseteq ChainIds
    /\ alive \in [ChainIds -> BOOLEAN]
    /\ now \in 0..MaxTime
    /\ last_checked_time \in [ChainIds -> 0..MaxTime]
    /\ restarts \in [ChainIds -> 0..MaxRestarts]
    /\ \A c \in ChainIds : Cardinality({r \in chains : r[1] = c}) <= 1

InitWith(ws) ==
    /\ chains = {}
    /\ watchers = ws
    /\ alive = [c \in ChainIds |-> c \in ws]
    /\ pc = [c \in ChainIds |-> "start"]
    /\ plan = [c \in ChainIds |-> <<>>]
    /\ existing_upgrade = [c \in ChainIds |-> <<>>]
    /\ current_block = [c \in ChainIds |-> 0]
    /\ last_checked_time = [c \in ChainIds |-> 0]
    /\ error_counter = [c \in ChainIds |-> NoErrors]
    /\ now = 0
    /\ restarts = [c \in ChainIds |-> 0]
    /\ tick = [c \in ChainIds |-> NoTick]
    /\ run = [c \in ChainIds |-> NewRun(0)]
    /\ noticed = [c \in ChainIds |-> {}]
    /\ reminded = [c \in ChainIds |-> {}]
    /\ marked = [c \in ChainIds |-> {}]
    /\ upsertFailed = [c \in ChainIds |-> FALSE]

Init == InitWith({"cosmoshub-4"})

Running(c, at) == c \in watchers /\ alive[c] /\ pc[c] = at

\* ---------------------------------------------------------------- monitor
\* Lines 57-68: connect, create the gauge and the counter, enter the loop.
monitor_start(c) ==
    /\ Running(c, "start")
    /\ last_checked_time' = [last_checked_time EXCEPT ![c] = 0]
    /\ error_counter' = [error_counter EXCEPT ![c] = NoErrors]
    /\ pc' = [pc EXCEPT ![c] = "loop"]
    /\ UNCHANGED <<chains, watchers, alive, plan, existing_upgrade,
                   current_block, now, restarts, tick, run, noticed,
                   reminded, marked, upsertFailed>>

\* Lines 71-90: sleep, fetch the plan, set the gauge, test the plan.
\* `failed` is where the two except clauses leave monitor().
fetch_plan_step(c, failed) ==
    /\ Running(c, "loop")
    /\ now' = IF now < MaxTime THEN now + 1 ELSE now
    /\ \E req \in PlanResponses :
         LET r == fetch_upgrade_plan(req)
         IN  IF r.raised # ""
             THEN /\ error_counter' =
                        inc(error_counter, c, error_label(r.raised))
                  /\ pc' = [pc EXCEPT ![c] = failed]
                  /\ tick' = [tick EXCEPT
                                ![c] = [NewTick(c) EXCEPT !.fetch = r.raised]]
                  /\ UNCHANGED <<plan, last_checked_time, run>>
             ELSE /\ plan' = [plan EXCEPT ![c] = r.value]
                  /\ last_checked_time' =
                        [last_checked_time EXCEPT ![c] = now']
                  /\ pc' = [pc EXCEPT ![c] = after_plan(r.value)]
                  /\ tick' = [tick EXCEPT
                                ![c] = [NewTick(c) EXCEPT
                                          !.fetch = "ok",
                                          !.owed = Owed(c, r.value)]]
                  /\ run' = IF PlanHeight(r.value) = run[c].height
                            THEN run
                            ELSE [run EXCEPT
                                    ![c] = NewRun(PlanHeight(r.value))]
                  /\ UNCHANGED error_counter
    /\ UNCHANGED <<chains, watchers, alive, existing_upgrade, current_block,
                   restarts, noticed, reminded, marked, upsertFailed>>

\* Variant: the except clauses `continue` in place of `return`.
monitor_fetch_plan_continue(c) == fetch_plan_step(c, "loop")

\* The except clauses of lines 77-84 return from monitor().
monitor_fetch_plan(c) == fetch_plan_step(c, "returned")

\* Line 24 when requests.get itself raises (no response): monitor() has no
\* handler for it and the exception leaves the loop.
monitor_fetch_plan_unhandled(c) ==
    /\ Running(c, "loop")
    /\ now' = IF now < MaxTime THEN now + 1 ELSE now
    /\ pc' = [pc EXCEPT ![c] = "raised"]
    /\ tick' = [tick EXCEPT
                  ![c] = [NewTick(c) EXCEPT !.fetch = "ConnectionError"]]
    /\ UNCHANGED <<chains, watchers, alive, plan, existing_upgrade,
                   current_block, last_checked_time, error_counter, restarts,
                   run, noticed, reminded, marked, upsertFailed>>

\* Variant: a new upgrade is written to the ledger before it is notified.
monitor_get_db_write_first(c) ==
    /\ Running(c, "get_db")
    /\ existing_upgrade' =
          [existing_upgrade EXCEPT ![c] = get_db_upgrade(chains, c)]
    /\ pc' = [pc EXCEPT
                ![c] = IF is_known_upgrade(existing_upgrade'[c], plan[c])
                       THEN "fetch_block" ELSE "update_db_upgrade"]
    /\ UNCHANGED <<chains, watchers, alive, plan, current_block,
                   last_checked_time, error_counter, now, restarts, tick,
                   run, noticed, reminded, marked, upsertFailed>>

\* Lines 92-93: read the ledger and choose the branch.
monitor_get_db(c) ==
    /\ Running(c, "get_db")
    /\ existing_upgrade' =
          [existing_upgrade EXCEPT ![c] = get_db_upgrade(chains, c)]
    /\ pc' = [pc EXCEPT
                ![c] = IF is_known_upgrade(existing_upgrade'[c], plan[c])
                       THEN "fetch_block" ELSE "notify"]
    /\ UNCHANGED <<chains, watchers, alive, plan, current_block,
                   last_checked_time, error_counter, now, restarts, tick,
                   run, noticed, reminded, marked, upsertFailed>>

\* Lines 94-107 and 112-113: fetch the block height, test the threshold.
\* `failed` is where the two except clauses leave monitor().
fetch_block_step(c, failed) ==
    /\ Running(c, "fetch_block")
    /\ \E req \in BlockResponses :
         LET r == fetch_block_height(req)
         IN  IF r.raised \in {"BlockNotInRequest", "BlockRequestFailed"}
             THEN /\ error_counter' =
                        inc(error_counter, c, error_label(r.raised))
                  /\ pc' = [pc EXCEPT ![c] = failed]
                  /\ tick' = [tick EXCEPT ![c].block = r.raised]
                  /\ UNCHANGED current_block
             ELSE IF r.raised # ""
             THEN /\ pc' = [pc EXCEPT ![c] = "raised"]
                  /\ tick' = [tick EXCEPT ![c].block = r.raised]
                  /\ UNCHANGED <<current_block, error_counter>>
             ELSE /\ current_block' = [current_block EXCEPT ![c] = r.value]
                  /\ pc' = [pc EXCEPT
                              ![c] = IF reminder_due(existing_upgrade[c],
                                                     r.value)
                                     THEN "remind" ELSE "loop"]
                  /\ tick' = [tick EXCEPT ![c].block = "ok"]
                  /\ UNCHANGED error_counter
    /\ UNCHANGED <<chains, watchers, alive, plan, existing_upgrade,
                   last_checked_time, now, restarts, run, noticed, reminded,
                   marked, upsertFailed>>

\* Variant: the except clauses `continue` in place of `return`.
monitor_fetch_block_continue(c) == fetch_block_step(c, "loop")

\* The except clauses of lines 98-105 return from monitor().
monitor_fetch_block(c) == fetch_block_step(c, "returned")

\* Line 109: remind_slack. webhook_client.send returns, or raises on a
\* transport error, which monitor() does not handle.
monitor_remind(c) ==
    /\ Running(c, "remind")
    /\ reminded' = [reminded EXCEPT ![c] = @ \cup {existing_upgrade[c][2]}]
    /\ run' = [run EXCEPT ![c].reminded = TRUE]
    /\ \E sent \in BOOLEAN :
         /\ tick' = [tick EXCEPT
                       ![c].sent = Append(@, remind_slack(c, plan[c],
                                                          current_block[c])),
                       ![c].alert = IF sent THEN "ok" ELSE "raised"]
         /\ pc' = [pc EXCEPT
                     ![c] = IF sent THEN "update_db_reminder" ELSE "raised"]
    /\ UNCHANGED <<chains, watchers, alive, plan, existing_upgrade,
                   current_block, last_checked_time, error_counter, now,
                   restarts, noticed, marked, upsertFailed>>

\* Lines 110, 135-144 and 112-113: update_db_reminder, then continue.
\* `after` is where the iteration goes on after the write.
update_db_reminder_step(c, after) ==
    /\ Running(c, "update_db_reminder")
    /\ \E ok \in BOOLEAN :
         IF ok
         THEN /\ chains' = update_db_reminder(chains, c)
              /\ marked' = [marked EXCEPT
                              ![c] = @ \cup {r[2] : r \in
                                             {x \in chains : x[1] = c}}]
              /\ run' = [run EXCEPT ![c].marked = TRUE]
              /\ tick' = [tick EXCEPT
                            ![c].writes =
                                Append(@, <<"update_db_reminder", "ok">>)]
              /\ UNCHANGED error_counter
         ELSE /\ error_counter[c]["database_update_failed"] < MaxErrors
              /\ error_counter' =
                    inc(error_counter, c, error_label("OperationalError"))
              /\ tick' = [tick EXCEPT
                            ![c].writes =
                                Append(@, <<"update_db_reminder", "failed">>)]
              /\ UNCHANGED <<chains, marked, run>>
    /\ pc' = [pc EXCEPT ![c] = after]
    /\ UNCHANGED <<watchers, alive, plan, existing_upgrade, current_block,
                   last_checked_time, now, restarts, noticed, reminded,
                   upsertFailed>>

\* Variant: without the `continue` of line 113 the iteration falls through
\* to line 115.
monitor_update_db_reminder_fall_through(c) ==
    update_db_reminder_step(c, "notify")

\* The `continue` of line 113 ends the iteration.
monitor_update_db_reminder(c) == update_db_reminder_step(c, "loop")

\* Line 115: notify_slack.
monitor_notify(c) ==
    /\ Running(c, "notify")
    /\ run' = [run EXCEPT ![c].noticed = TRUE]
    /\ noticed' = [noticed EXCEPT ![c] = @ \cup {int_(plan[c].height)}]
    /\ \E sent \in BOOLEAN :
         /\ tick' = [tick EXCEPT
                       ![c].sent = Append(@, notify_slack(c, plan[c])),
                       ![c].alert = IF sent THEN "ok" ELSE "raised"]
         /\ pc' = [pc EXCEPT
                     ![c] = IF sent THEN "update_db_upgrade" ELSE "raised"]
    /\ UNCHANGED <<chains, watchers, alive, plan, existing_upgrade,
                   current_block, last_checked_time, error_counter, now,
                   restarts, reminded, marked, upsertFailed>>

\* Lines 116 and 124-133: update_db_upgrade, then the next iteration.
\* `failed` is where monitor() is after an sqlite3.OperationalError.
update_db_upgrade_step(c, failed) ==
    /\ Running(c, "update_db_upgrade")
    /\ \E ok \in BOOLEAN :
         IF ok
         THEN /\ pc' = [pc EXCEPT ![c] = "loop"]
              /\ chains' = update_db_upgrade(chains, c, plan[c])
              /\ run' = [run EXCEPT ![c].upserted = TRUE]
              /\ tick' = [tick EXCEPT
                            ![c].writes =
                                Append(@, <<"update_db_upgrade", "ok">>)]
              /\ UNCHANGED <<error_counter, upsertFailed>>
         ELSE /\ error_counter[c]["database_update_failed"] < MaxErrors
              /\ error_counter' =
                    inc(error_counter, c, error_label("OperationalError"))
              /\ upsertFailed' = [upsertFailed EXCEPT ![c] = TRUE]
              /\ tick' = [tick EXCEPT
                            ![c].writes =
                                Append(@, <<"update_db_upgrade", "failed">>)]
              /\ pc' = [pc EXCEPT ![c] = failed]
              /\ UNCHANGED <<chains, run>>
    /\ UNCHANGED <<watchers, alive, plan, existing_upgrade, current_block,
                   last_checked_time, now, restarts, noticed, reminded,
                   marked>>

\* Variant: the OperationalError is counted and raised again.
monitor_update_db_upgrade_reraise(c) == update_db_upgrade_step(c, "raised")

\* The except clause of lines 131-133 swallows the error; the loop goes on.
monitor_update_db_upgrade(c) == update_db_upgrade_step(c, "loop")

\* ------------------------------------------------------------ the process
\* The process stops at any point of monitor(); the database file stays.
Crash(c) ==
    /\ c \in watchers /\ alive[c]
    /\ pc[c] \notin {"returned", "raised"}
    /\ alive' = [alive EXCEPT ![c] = FALSE]
    /\ UNCHANGED <<chains, watchers, pc, plan, existing_upgrade,
                   current_block, last_checked_time, error_counter, now,
                   restarts, tick, run, noticed, reminded, marked,
                   upsertFailed>>

\* A new process: __init__ and a call of monitor() on the same db_path.
Restart(c) ==
    /\ c \in watchers
    /\ ~alive[c] \/ pc[c] \in {"returned", "raised"}
    /\ restarts[c] < MaxRestarts
    /\ restarts' = [restarts EXCEPT ![c] = @ + 1]
    /\ alive' = [alive EXCEPT ![c] = TRUE]
    /\ pc' = [pc EXCEPT ![c] = "start"]
    /\ plan' = [plan EXCEPT ![c] = <<>>]
    /\ existing_upgrade' = [existing_upgrade EXCEPT ![c] = <<>>]
    /\ current_block' = [current_block EXCEPT ![c] = 0]
    /\ tick' = [tick EXCEPT ![c] = NoTick]
    /\ UNCHANGED <<chains, watchers, last_checked_time, error_counter, now,
                   run, noticed, reminded, marked, upsertFailed>>

Next ==
    \E c \in ChainIds :
        \/ monitor_start(c)
        \/ monitor_fetch_plan(c)
        \/ monitor_fetch_plan_unhandled(c)
        \/ monitor_get_db(c)
        \/ monitor_fetch_block(c)
        \/ monitor_remind(c)
        \/ monitor_update_db_reminder(c)
        \/ monitor_notify(c)
        \/ monitor_update_db_upgrade(c)
        \/ Crash(c)
        \/ Restart(c)

Spec == Init /\ [][Next]_vars

\* ------------------------------------------------------------- vocabulary
\* The ledger record of chain c, << >> for none.
Row(c) == get_db_upgrade(chains, c)

\* This step dispatches an alert of the given kind for chain c.
Dispatched(c, kind) ==
    /\ tick'[c].sent # tick[c].sent
    /\ tick'[c].sent # <<>>
    /\ tick'[c].sent[Len(tick'[c].sent)].kind = kind

\* The alerts of the given kind dispatched in the current iteration.
Sent(c, kind) ==
    Cardinality({i \in DOMAIN tick[c].sent : tick[c].sent[i].kind = kind})

\* The current iteration fetched a plan and has run to its end: it reached
\* the next sleep, returned, or was left by an exception.
TickOver(c) ==
    /\ tick[c].fetch = "ok"
    /\ pc[c] \in {"loop", "returned", "raised"}

\* The current iteration observed a plan and the ledger held, when it began,
\* a record whose height is at least the plan height (Case A).
CaseA(c) ==
    /\ tick[c].fetch = "ok" /\ plan[c] # <<>>
    /\ tick[c].db0 # <<>>
    /\ tick[c].db0[2] >= PlanHeight(plan[c])

C2_FirstPlanNoticed ==
    \A c \in ChainIds :
        (TickOver(c) /\ plan[c] # <<>> /\ tick[c].db0 = <<>>) =>
            /\ Sent(c, "notice") = 1
            /\ Sent(c, "reminder") = 0
            /\ tick[c].sent[1].height = plan[c].height
            /\ tick[c].writes = << <<"update_db_upgrade", "ok">> >> =>
                  Row(c) = <<c, PlanHeight(plan[c]), 0>>

C2_Witness ==
    \E c \in ChainIds :
        /\ TickOver(c) /\ plan[c] # <<>> /\ tick[c].db0 = <<>>
        /\ tick[c].writes = << <<"update_db_upgrade", "ok">> >>
        /\ Row(c) = <<c, MaxHeight, 0>>

\* ---------------------------------------------------------------------- C3
\* C3: without restart and with every update_db_upgrade succeeding, once a
\* notice was dispatched for plan height h, no iteration of the unbroken run
\* of iterations observing h dispatches a notice.
C3_NoticeIdempotent ==
    [][\A c \in ChainIds :
         (restarts[c] = 0 /\ ~upsertFailed[c] /\ Dispatched(c, "notice")) =>
            ~run[c].noticed]_vars

\* A later iteration on the same plan height, with the reminder already
\* sent, has ended without a notice.
C3_Witness ==
    \E c \in ChainIds :
        /\ restarts[c] = 0 /\ ~upsertFailed[c]
        /\ run[c].noticed /\ run[c].marked
        /\ TickOver(c) /\ pc[c] = "loop" /\ tick[c].block = "ok"
        /\ PlanHeight(plan[c]) = run[c].height
        /\ tick[c].db0[3] = 1
        /\ Sent(c, "notice") = 0

\* ---------------------------------------------------------------------- C4
\* C4 as stated: in an iteration that observed a plan, a notice is dispatched
\* iff the ledger had no record or its height differs from the plan height.
C4_NoticeIffDiffers ==
    \A c \in ChainIds :
        (TickOver(c) /\ plan[c] # <<>>) =>
            (Sent(c, "notice") >= 1 <=>
                (tick[c].db0 = <<>>
                 \/ tick[c].db0[2] # PlanHeight(plan[c])))

\* C4 amended: in an iteration that observed a plan, a notice is dispatched
\* iff the ledger had no record or its height is lower than the plan height.
C4_NoticeIffLower ==
    \A c \in ChainIds :
        (TickOver(c) /\ plan[c] # <<>>) =>
            (Sent(c, "notice") >= 1 <=>
                (tick[c].db0 = <<>>
                 \/ tick[c].db0[2] < PlanHeight(plan[c])))

\* An iteration observed a plan lower than the recorded height and has ended
\* without a notice.
C4_Witness ==
    \E c \in ChainIds :
        /\ TickOver(c) /\ plan[c] # <<>> /\ tick[c].db0 # <<>>
        /\ tick[c].db0[2] > PlanHeight(plan[c])
        /\ pc[c] = "loop"
        /\ Sent(c, "notice") = 0

\* ---------------------------------------------------------------------- C5
\* C5: a reminder is dispatched only while the ledger record has
\* is_reminder_sent = 0, and the flag goes back from 1 to 0 only in a write
\* that records a different height.
C5_NoReminderWhileFlagSet ==
    [][\A c \in ChainIds :
         /\ Dispatched(c, "reminder") => (Row(c) # <<>> /\ Row(c)[3] = 0)
         /\ (Row(c) # <<>> /\ Row(c)[3] = 1) =>
               /\ get_db_upgrade(chains', c) # <<>>
               /\ get_db_upgrade(chains', c)[3] = 0 =>
                     get_db_upgrade(chains', c)[2] # Row(c)[2]]_vars

\* With the flag set, an iteration within the threshold, on a lower plan
\* height, has ended without a reminder.
C5_Witness ==
    \E c \in ChainIds :
        /\ Row(c) # <<>> /\ Row(c)[3] = 1 /\ tick[c].db0 = Row(c)
        /\ CaseA(c) /\ TickOver(c) /\ tick[c].block = "ok"
        /\ PlanHeight(plan[c]) < Row(c)[2]
        /\ Row(c)[2] - current_block[c] <= ReminderDiffBlocks
        /\ Sent(c, "reminder") = 0

C7_NewHeightResetsFlag ==
    [][\A c \in ChainIds :
         (/\ get_db_upgrade(chains', c) # <<>>
          /\ \/ Row(c) = <<>>
             \/ get_db_upgrade(chains', c)[2] # Row(c)[2]) =>
            get_db_upgrade(chains', c)[3] = 0]_vars

\* The iteration began with a record whose flag was set and has replaced it
\* by a record of another height.
C7_Witness ==
    \E c \in ChainIds :
        /\ tick[c].db0 # <<>> /\ tick[c].db0[3] = 1
        /\ tick[c].writes = << <<"update_db_upgrade", "ok">> >>
        /\ Row(c)[2] # tick[c].db0[2]
        /\ Row(c)[3] = 0

\* ---------------------------------------------------------------------- C8
\* C8: in a Case A iteration with is_reminder_sent = 0 whose block height was
\* fetched, a reminder is dispatched iff recorded height - block height is
\* at most the threshold.
C8_ReminderThreshold ==
    \A c \in ChainIds :
        (CaseA(c) /\ TickOver(c) /\ tick[c].block = "ok"
         /\ tick[c].db0[3] = 0) =>
            /\ Sent(c, "reminder") \in {0, 1}
            /\ Sent(c, "reminder") = 1 <=>
                  tick[c].db0[2] - current_block[c] <= ReminderDiffBlocks

\* The boundary: the difference equals the threshold and the reminder went
\* out.
C8_Witness ==
    \E c \in ChainIds :
        /\ CaseA(c) /\ TickOver(c) /\ tick[c].block = "ok"
        /\ tick[c].db0[3] = 0
        /\ tick[c].db0[2] - current_block[c] = ReminderDiffBlocks
        /\ Sent(c, "reminder") = 1

\* ---------------------------------------------------------------------- C9
\* C9: an iteration whose fetch returned no plan leaves the ledger as it
\* was, dispatches no alert, fetches no block height, writes nothing and is
\* back at the sleep of the next iteration.
C9_NoPlanNoEffect ==
    \A c \in ChainIds :
        (tick[c].fetch = "ok" /\ plan[c] = <<>>) =>
            /\ pc[c] = "loop"
            /\ Row(c) = tick[c].db0
            /\ tick[c].sent = <<>>
            /\ tick[c].block = "none"
            /\ tick[c].writes = <<>>

\* A no-plan iteration with a record in the ledger.
C9_Witness ==
    \E c \in ChainIds :
        /\ tick[c].fetch = "ok" /\ plan[c] = <<>>
        /\ alive[c]
        /\ Row(c) # <<>> /\ Row(c)[3] = 0

\* --------------------------------------------------------------------- C10
\* C10: when the plan fetch raises UpgradeRequestFailed or PlanNotInRequest
\* the counter of that error is 1, monitor() has returned, the ledger and
\* the gauge are as they were when the iteration began and no alert was
\* dispatched; and a watcher that has returned takes no further step.
C10_PlanFailureHalts ==
    /\ [](\A c \in ChainIds :
            /\ tick[c].fetch = "UpgradeRequestFailed" =>
                  error_counter[c]["upgrade_request_failed"] = 1
            /\ tick[c].fetch = "PlanNotInRequest" =>
                  error_counter[c]["plan_not_in_request"] = 1
            /\ tick[c].fetch \in {"UpgradeRequestFailed",
                                  "PlanNotInRequest"} =>
                  /\ pc[c] = "returned"
                  /\ Row(c) = tick[c].db0
                  /\ last_checked_time[c] = tick[c].gauge0
                  /\ tick[c].sent = <<>>
                  /\ tick[c].writes = <<>>)
    /\ [][\A c \in ChainIds :
            (pc[c] = "returned" /\ restarts'[c] = restarts[c]) =>
                /\ pc'[c] = "returned"
                /\ tick'[c] = tick[c]
                /\ get_db_upgrade(chains', c) = Row(c)
                /\ error_counter'[c] = error_counter[c]
                /\ last_checked_time'[c] = last_checked_time[c]]_vars

\* The plan fetch failed in a later iteration, with the gauge set before and
\* a record in the ledger.
C10_Witness ==
    \E c \in ChainIds :
        /\ tick[c].fetch \in {"UpgradeRequestFailed", "PlanNotInRequest"}
        /\ pc[c] = "returned"
        /\ tick[c].gauge0 > 0 /\ now > tick[c].gauge0
        /\ Row(c) # <<>>

\* --------------------------------------------------------------------- C11
\* C11: when the block fetch of a Case A iteration raises BlockRequestFailed
\* or BlockNotInRequest the counter of that error is 1, monitor() has
\* returned, no reminder was dispatched, update_db_reminder was not called
\* and the ledger record is as it was; the watcher then takes no further
\* step.
C11_BlockFailureHalts ==
    /\ [](\A c \in ChainIds :
            /\ tick[c].block = "BlockRequestFailed" =>
                  error_counter[c]["block_request_failed"] = 1
            /\ tick[c].block = "BlockNotInRequest" =>
                  error_counter[c]["block_not_in_request"] = 1
            /\ tick[c].block \in {"BlockRequestFailed",
                                  "BlockNotInRequest"} =>
                  /\ CaseA(c)
                  /\ pc[c] = "returned"
                  /\ Row(c) = tick[c].db0
                  /\ tick[c].sent = <<>>
                  /\ tick[c].writes = <<>>)
    /\ [][\A c \in ChainIds :
            (/\ tick[c].block \in {"BlockRequestFailed", "BlockNotInRequest"}
             /\ restarts'[c] = restarts[c]) =>
                /\ pc'[c] = pc[c]
                /\ tick'[c] = tick[c]
                /\ get_db_upgrade(chains', c) = Row(c)]_vars

\* The block fetch failed in an iteration that was within reach of the
\* reminder: the flag was not set.
C11_Witness ==
    \E c \in ChainIds :
        /\ tick[c].block \in {"BlockRequestFailed", "BlockNotInRequest"}
        /\ pc[c] = "returned"
        /\ tick[c].db0 # <<>> /\ tick[c].db0[3] = 0
        /\ PlanHeight(plan[c]) = tick[c].db0[2]

\* --------------------------------------------------------------------- C12
\* The last ledger write of the current iteration failed.
WriteFailed(c) ==
    /\ tick[c].writes # <<>>
    /\ tick[c].writes[Len(tick[c].writes)][2] = "failed"

\* C12 as stated: a failed ledger write is counted, leaves the ledger as it
\* was and leaves the watcher at the sleep of the next iteration; and the
\* next iteration, when it observes the same plan height, dispatches the
\* alert of the failed write again.
C12_FailedWriteRetried ==
    \A c \in ChainIds :
        /\ WriteFailed(c) =>
              /\ pc[c] = "loop"
              /\ Row(c) = tick[c].db0
              /\ error_counter[c]["database_update_failed"] >= 1
        /\ (TickOver(c) /\ tick[c].owed = "update_db_upgrade") =>
              Sent(c, "notice") = 1
        /\ (TickOver(c) /\ tick[c].owed = "update_db_reminder") =>
              Sent(c, "reminder") = 1

\* C12 amended: as C12, but the reminder of a failed update_db_reminder is
\* dispatched again only when the block fetch of the next iteration succeeds
\* and the recorded height is within the threshold of the block height.
C12_FailedWriteRetriedInReach ==
    \A c \in ChainIds :
        /\ WriteFailed(c) =>
              /\ pc[c] = "loop"
              /\ Row(c) = tick[c].db0
              /\ error_counter[c]["database_update_failed"] >= 1
        /\ (TickOver(c) /\ tick[c].owed = "update_db_upgrade") =>
              Sent(c, "notice") = 1
        /\ (TickOver(c) /\ tick[c].owed = "update_db_reminder") =>
              (Sent(c, "reminder") = 1 <=>
                  (/\ tick[c].block = "ok"
                   /\ tick[c].db0[2] - current_block[c]
                         <= ReminderDiffBlocks))

\* After a failed update_db_reminder the next iteration, on the same plan
\* height and in reach of the threshold, has dispatched the reminder again.
C12_Witness ==
    \E c \in ChainIds :
        /\ TickOver(c) /\ tick[c].owed = "update_db_reminder"
        /\ error_counter[c]["database_update_failed"] = 1
        /\ Sent(c, "reminder") = 1
        /\ Row(c)[3] = 1

\* --------------------------------------------------------------------- C13
\* C13 as stated: when the send of an alert raises, the watcher is not
\* halted: it goes on to the ledger write that follows the alert and then to
\* the next iteration.
C13_AlertFailureNonFatal ==
    \A c \in ChainIds :
        tick[c].alert = "raised" =>
            /\ pc[c] \in {"update_db_upgrade", "update_db_reminder", "loop"}
            /\ pc[c] = "loop" => tick[c].writes # <<>>

\* --------------------------------------------------------------------- C14
\* C14: in an iteration every ledger write comes after the dispatch of its
\* alert, so a ledger record of height h implies that a notice was
\* dispatched for h, and is_reminder_sent = 1 implies that a reminder was
\* dispatched while h was recorded.
C14_AlertBeforeWrite ==
    \A c \in ChainIds :
        /\ Len(tick[c].writes) <= Len(tick[c].sent)
        /\ Row(c) # <<>> =>
              /\ Row(c)[2] \in noticed[c]
              /\ Row(c)[3] = 1 => Row(c)[2] \in reminded[c]

\* A record whose height was replaced once and whose reminder is marked.
C14_Witness ==
    \E c \in ChainIds :
        /\ Row(c) # <<>> /\ Row(c)[3] = 1
        /\ Cardinality(noticed[c]) = 2
        /\ Row(c)[2] \in reminded[c]

\* --------------------------------------------------------------------- C15
\* The current iteration observed a plan and has reached the sleep of the
\* next one.
EndOfTick(c) ==
    /\ tick[c].fetch = "ok" /\ plan[c] # <<>>
    /\ pc[c] = "loop"

\* C15 as stated: at the end of an iteration that observed a plan, a record
\* with is_reminder_sent = 1 has the height of that plan.
C15_FlagMeansPlanHeight ==
    \A c \in ChainIds :
        (EndOfTick(c) /\ Row(c) # <<>> /\ Row(c)[3] = 1) =>
            Row(c)[2] = PlanHeight(plan[c])

\* C15 amended: at the end of an iteration that observed a plan, a record
\* with is_reminder_sent = 1 has a height that is at least the height of
\* that plan, unless the update_db_upgrade of the iteration failed and left
\* the older record.
C15_FlagMeansKnownHeight ==
    \A c \in ChainIds :
        (EndOfTick(c) /\ Row(c) # <<>> /\ Row(c)[3] = 1) =>
            \/ Row(c)[2] >= PlanHeight(plan[c])
            \/ tick[c].writes = << <<"update_db_upgrade", "failed">> >>

\* The reminder was marked in an iteration that observed a plan lower than
\* the recorded height.
C15_Witness ==
    \E c \in ChainIds :
        /\ EndOfTick(c) /\ Row(c) # <<>> /\ Row(c)[3] = 1
        /\ Row(c)[2] > PlanHeight(plan[c])
        /\ tick[c].writes = << <<"update_db_reminder", "ok">> >>

\* --------------------------------------------------------------------- C16
\* C16 as stated: a block response with status 200 and a result object that
\* lacks sync_info or latest_block_height makes the watcher count
\* block_not_in_request and return from monitor() as for a reported error.
\* (fetch_block_height yields "KeyError" for exactly these responses.)
C16_MissingFieldReported ==
    \A c \in ChainIds :
        tick[c].block = "KeyError" =>
            /\ pc[c] = "returned"
            /\ error_counter[c]["block_not_in_request"] = 1

\* --------------------------------------------------------------------- C18
\* This step calls the given ledger write for chain c.
Wrote(c, op) ==
    /\ tick'[c].writes # tick[c].writes
    /\ tick'[c].writes # <<>>
    /\ tick'[c].writes[Len(tick'[c].writes)][1] = op

\* C18: a ledger record is never deleted and its height never decreases, and
\* update_db_upgrade is called only when there is no record or the recorded
\* height is lower than the plan height.
C18_HeightNeverDecreases ==
    [][\A c \in ChainIds :
         /\ Row(c) # <<>> =>
               /\ get_db_upgrade(chains', c) # <<>>
               /\ get_db_upgrade(chains', c)[2] >= Row(c)[2]
         /\ Wrote(c, "update_db_upgrade") =>
               (Row(c) = <<>> \/ Row(c)[2] < PlanHeight(plan[c]))]_vars

\* The record went from a lower height to the largest one, and a later
\* iteration on a lower plan has left it there.
C18_Witness ==
    \E c \in ChainIds :
        /\ Cardinality(noticed[c]) >= 2
        /\ Row(c) # <<>> /\ Row(c)[2] = MaxHeight
        /\ EndOfTick(c) /\ PlanHeight(plan[c]) < MaxHeight
        /\ tick[c].db0 = Row(c)

\* --------------------------------------------------------------------- C19
\* C19: an iteration dispatches at most one alert and calls at most one
\* ledger write; an iteration that dispatches a notice fetches no block
\* height and dispatches no reminder.
C19_OneAlertOneWrite ==
    \A c \in ChainIds :
        /\ Len(tick[c].sent) <= 1
        /\ Len(tick[c].writes) <= 1
        /\ Sent(c, "notice") >= 1 =>
              /\ Sent(c, "reminder") = 0
              /\ tick[c].block = "none"
              /\ \A i \in DOMAIN tick[c].writes :
                    tick[c].writes[i][1] = "update_db_upgrade"
        /\ Sent(c, "reminder") >= 1 =>
              \A i \in DOMAIN tick[c].writes :
                  tick[c].writes[i][1] = "update_db_reminder"

\* A new, higher plan was notified and recorded in an iteration in which the
\* block height last fetched was already within the threshold of it.
C19_Witness ==
    \E c \in ChainIds :
        /\ EndOfTick(c) /\ tick[c].db0 # <<>>
        /\ Sent(c, "notice") = 1
        /\ tick[c].writes = << <<"update_db_upgrade", "ok">> >>
        /\ current_block[c] > 0
        /\ Row(c)[2] - current_block[c] <= ReminderDiffBlocks

\* --------------------------------------------------------------------- C17
\* Two ChainWatcher objects, one per chain id, on the same chains table.
InitTwo == InitWith(ChainIds)

\* The environment of the two watchers: the queries and the alerts succeed,
\* a chain has no plan or the plan of height MaxHeight, and the block height
\* is one of two values on either side of the reminder threshold.  A ledger
\* write may still fail (the other watcher holds the database lock).
Steady ==
    \A c \in ChainIds :
        /\ pc[c] \notin {"returned", "raised"}
        /\ plan[c] # <<>> => PlanHeight(plan[c]) = MaxHeight
        /\ current_block[c] \in {0, MaxHeight - 2, MaxHeight - 1}

NextTwo ==
    \E c \in ChainIds :
        \/ monitor_start(c) /\ Steady'
        \/ monitor_fetch_plan(c) /\ Steady'
        \/ monitor_get_db(c) /\ Steady'
        \/ monitor_fetch_block(c) /\ Steady'
        \/ monitor_remind(c) /\ Steady'
        \/ monitor_update_db_reminder(c) /\ Steady'
        \/ monitor_notify(c) /\ Steady'
        \/ monitor_update_db_upgrade(c) /\ Steady'

SpecTwo == InitTwo /\ [][NextTwo]_vars

\* A step of the watcher of chain c.
StepOf(c) ==
    \/ monitor_start(c)
    \/ monitor_fetch_plan(c)
    \/ monitor_get_db(c)
    \/ monitor_fetch_block(c)
    \/ monitor_remind(c)
    \/ monitor_update_db_reminder(c)
    \/ monitor_notify(c)
    \/ monitor_update_db_upgrade(c)

\* C17: with two watchers for different chain ids on the same ledger, under
\* every interleaving the ledger holds at most one record per chain id, what
\* a watcher has read is no record or the record keyed by its own chain id,
\* and a step of one watcher adds and removes only records keyed by its own
\* chain id and leaves the other chain's record and the other watcher's
\* loaded record unchanged.
C17_WatchersIsolated ==
    /\ [](\A c \in ChainIds :
            /\ Cardinality({r \in chains : r[1] = c}) <= 1
            /\ existing_upgrade[c] # <<>> => existing_upgrade[c][1] = c)
    /\ [][\A c \in ChainIds :
            StepOf(c) =>
                /\ \A r \in (chains' \ chains) \cup (chains \ chains') :
                       r[1] = c
                /\ \A d \in ChainIds \ {c} :
                       /\ get_db_upgrade(chains', d) = Row(d)
                       /\ existing_upgrade'[d] = existing_upgrade[d]
                /\ pc[c] = "get_db" => existing_upgrade'[c] = Row(c)]_vars

\* Both chains have a record, one with the reminder flag set and one
\* without, while one watcher is about to set its flag and the other is in
\* the middle of an iteration of its own.
C17_Witness ==
    \E c \in ChainIds : \E d \in ChainIds \ {c} :
        /\ Row(c) # <<>> /\ Row(c)[3] = 1
        /\ Row(d) # <<>> /\ Row(d)[3] = 0
        /\ pc[d] = "update_db_reminder"
        /\ pc[c] \in {"get_db", "fetch_block", "notify", "update_db_upgrade"}

\* --------------------------------------------------------------------- C20
\* No query, alert or write fails: monitor() neither returns nor is left by
\* an exception, and no error is counted.
NoFailure ==
    \A c \in ChainIds :
        /\ pc[c] \notin {"returned", "raised"}
        /\ error_counter[c] = NoErrors

NextLive ==
    \E c \in ChainIds :
        \/ monitor_start(c) /\ NoFailure'
        \/ monitor_fetch_plan(c) /\ NoFailure'
        \/ monitor_get_db(c) /\ NoFailure'
        \/ monitor_fetch_block(c) /\ NoFailure'
        \/ monitor_remind(c) /\ NoFailure'
        \/ monitor_update_db_reminder(c) /\ NoFailure'
        \/ monitor_notify(c) /\ NoFailure'
        \/ monitor_update_db_upgrade(c) /\ NoFailure'

\* The `while True` loop of monitor() keeps running.
SpecLive == Init /\ [][NextLive]_vars /\ WF_vars(NextLive)

\* Every plan the watcher of c has fetched has height h.
PlanIs(c, h) == plan[c] # <<>> => PlanHeight(plan[c]) = h

\* The block height the watcher of c fetched last is within the reminder
\* threshold of h.
BlockInReach(c, h) ==
    current_block[c] # 0 => h - current_block[c] <= ReminderDiffBlocks

\* C20: with no failure and the loop kept running, if the chain never
\* reports a plan of another height than h, from some iteration on always
\* reports a plan, and from some iteration on every block height fetched is
\* within the reminder threshold of h, then a notice for h is eventually
\* followed by a reminder for h and the ledger eventually holds h with the
\* reminder flag set; and no reminder is dispatched for a recorded height
\* that a reminder was dispatched for before.
C20_ReminderLiveness ==
    /\ \A c \in {"cosmoshub-4"} : \A h \in PlanHeights :
          ([]PlanIs(c, h) /\ <>[](plan[c] # <<>>) /\ <>[]BlockInReach(c, h))
              => /\ [](h \in noticed[c] => <>(h \in reminded[c]))
                 /\ <>(Row(c) = <<c, h, 1>>)
    /\ [][\A c \in ChainIds :
            Dispatched(c, "reminder") =>
                existing_upgrade[c][2] \notin reminded[c]]_vars

\* The notice and then the reminder for the plan height were dispatched, the
\* ledger holds that height with the flag set, and the watcher has since
\* fetched the same plan and a block height within the threshold again.
C20_Witness ==
    \E c \in ChainIds : \E h \in PlanHeights :
        /\ plan[c] # <<>> /\ PlanHeight(plan[c]) = h
        /\ noticed[c] = {h} /\ reminded[c] = {h}
        /\ Row(c) = <<c, h, 1>>
        /\ pc[c] = "loop" /\ tick[c].block = "ok"
        /\ h - current_block[c] <= ReminderDiffBlocks

====
